---- MODULE Spec2Model ----
(***************************************************************************)
(* The in-process cache of backend_camphub (app/core/cache.py): the store  *)
(* InMemoryCache, the key builder, the cached and cache_invalidate         *)
(* decorators, CacheManager.invalidate_resource_cache and the sweep; the   *)
(* sweeper task and the lifespan that starts and cancels it (app/main.py); *)
(* the enroll and cancel calls of EnrollmentService; enroll of             *)
(* EventEnrollmentService; the cached read and update_profile of           *)
(* UserService; get_user_bookmarks of BookmarkService.                     *)
(*                                                                         *)
(* Strings are sequences of one-character strings, so that startswith and  *)
(* the substring test `in` are computed on the characters.  Python values  *)
(* are tagged tuples: None is <<"None">>, an int n is <<"int", n>>, any    *)
(* other object is <<"obj", name>> or a tuple that begins with the name of *)
(* its class.  The clock counts minutes; every                             *)
(* datetime.now() of one store operation reads the same minute.            *)
(***************************************************************************)
EXTENDS Integers, Sequences, FiniteSets, TLC

\* ------------------------------------------------------------------ bounds
\* The clock stops at MaxTime.  A caller's ttl argument ranges over 0..MaxTime:
\* an entry that outlives the clock never expires, whatever its ttl.
MaxTime == 2

\* The enrollment table's id sequence stops at MaxEnrollmentId.
MaxEnrollmentId == 2

\* The row of user 1 is updated at most MaxVersion times.
MaxVersion == 2

\* CACHE_CONFIG, in minutes (the source gives seconds: 60 and 300).
short_ttl == 1
default_ttl == 5

\* ----------------------------------------------------------- python values
None == <<"None">>
PyInt(n) == <<"int", n>>
Obj(name) == <<"obj", name>>

\* What a caller stores and what a wrapped operation returns.
Values == {None, Obj("a"), Obj("b")}

\* What a wrapped operation raises.
Exc(name) == <<"exc", name>>
Exceptions == {Exc("NotFoundError"), Exc("DatabaseError")}

TTLs == 0..MaxTime

\* ----------------------------------------------------------------- strings
Colon == <<":">>
Dot == <<".">>
Star == <<"*">>
Empty == <<>>

s_user == <<"u","s","e","r">>
s_announcement == <<"a","n","n","o","u","n","c","e","m","e","n","t">>

\* func.__module__ and func.__name__ of the two wrapped reads.
user_service_module ==
    <<"a","p","p",".","s","e","r","v","i","c","e","s",".",
      "u","s","e","r","_","s","e","r","v","i","c","e">>
get_by_id_with_relations_name ==
    <<"g","e","t","_","b","y","_","i","d","_","w","i","t","h","_",
      "r","e","l","a","t","i","o","n","s">>
announcement_service_module ==
    <<"a","p","p",".","s","e","r","v","i","c","e","s",".",
      "a","n","n","o","u","n","c","e","m","e","n","t","_",
      "s","e","r","v","i","c","e">>
get_active_announcements_name ==
    <<"g","e","t","_","a","c","t","i","v","e","_",
      "a","n","n","o","u","n","c","e","m","e","n","t","s">>

\* Python's `sub in s` on strings
contains(s, sub) ==
    \E i \in 0..(Len(s) - Len(sub)) : SubSeq(s, i + 1, i + Len(sub)) = sub

\* A prefix test written as `prefix in key`.
startswith_anywhere(key, prefix) == contains(key, prefix)

\* str.startswith
startswith(key, prefix) ==
    /\ Len(prefix) <= Len(key)
    /\ SubSeq(key, 1, Len(prefix)) = prefix

\* str.endswith
endswith(s, suffix) ==
    /\ Len(suffix) <= Len(s)
    /\ SubSeq(s, Len(s) - Len(suffix) + 1, Len(s)) = suffix

\* str(n) of a non-negative int: its decimal digits
Digit(d) ==
    CASE d = 0 -> "0" [] d = 1 -> "1" [] d = 2 -> "2" [] d = 3 -> "3"
      [] d = 4 -> "4" [] d = 5 -> "5" [] d = 6 -> "6" [] d = 7 -> "7"
      [] d = 8 -> "8" [] d = 9 -> "9"

RECURSIVE str(_)
str(n) == IF n < 10 THEN <<Digit(n)>> ELSE str(n \div 10) \o <<Digit(n % 10)>>

\* -------------------------------------------------------------- cache keys
\* A service object: its class, the address it lives at, the session it was
\* built with.  No service class defines __str__ or __repr__.
Instance(class, address, session) == <<"inst", class, address, session>>

\* The self of the calls the requests make.
UserService_1 == Instance("UserService", "0x7f01", "session1")
AnnouncementService_1 == Instance("AnnouncementService", "0x7f02", "session1")

\* json.dumps of one value, as the sequence of its tokens.  An object json
\* cannot serialise goes through default=str: object.__str__ gives the class
\* and the address, nothing of the object's state.
dumps_value(v) ==
    CASE v[1] = "None" -> <<"null">>
      [] v[1] = "int" -> str(v[2])
      [] v[1] = "obj" -> <<"\"", v[2], "\"">>
      [] v[1] = "inst" -> <<"\"", "<", v[2], " object at ", v[3], ">", "\"">>

\* json.dumps of the tuple args: a JSON array
RECURSIVE dumps_items(_)
dumps_items(args) ==
    IF args = <<>> THEN <<>>
    ELSE IF Len(args) = 1 THEN dumps_value(args[1])
    ELSE dumps_value(args[1]) \o <<", ">> \o dumps_items(Tail(args))

\* The parameter names of the wrapped reads, in the order sort_keys puts them.
sorted_names == <<"category", "page", "per_page", "user_id">>

\* json.dumps of the dict kwargs with sort_keys=True: kwargs is the sequence
\* of <<name, value>> in the order the caller supplied them.
RECURSIVE dumps_sorted(_, _)
dumps_sorted(kwargs, names) ==
    IF names = <<>> THEN <<>>
    ELSE LET here == {i \in 1..Len(kwargs) : kwargs[i][1] = Head(names)}
             rest == dumps_sorted(kwargs, Tail(names))
         IN  IF here = {} THEN rest
             ELSE LET i == CHOOSE j \in here : TRUE
                      item == <<"\"", Head(names), "\"", ": ">>
                                 \o dumps_value(kwargs[i][2])
                  IN  IF rest = <<>> THEN item ELSE item \o <<", ">> \o rest

\* json.dumps({"args": args, "kwargs": kwargs}, sort_keys=True, default=str)
dumps(args, kwargs) ==
    <<"{", "\"args\"", ": ", "[">> \o dumps_items(args) \o <<"]", ", ">>
      \o <<"\"kwargs\"", ": ", "{">> \o dumps_sorted(kwargs, sorted_names)
      \o <<"}", "}">>

\* hashlib.md5(serialized.encode()).hexdigest(), collisions abstracted away:
\* distinct serialisations get distinct digests.  Two hex digits stand for
\* the 32 of the two calls the requests make; any other serialisation stands
\* for its own digest.
serialized_user_call == dumps(<<UserService_1, PyInt(1)>>, <<>>)
serialized_announcement_call == dumps(<<AnnouncementService_1>>, <<>>)

md5_hexdigest(serialized) ==
    CASE serialized = serialized_user_call -> <<"c","4">>
      [] serialized = serialized_announcement_call -> <<"e","3">>
      [] OTHER -> serialized

\* generate_cache_key(*args, **kwargs)
generate_cache_key(args, kwargs) ==
    md5_hexdigest(dumps(args, kwargs))

\* The wrapped reads: @cached(ttl_seconds=..., key_prefix=...) on a method.
get_by_id_with_relations ==
    [module |-> user_service_module, name |-> get_by_id_with_relations_name,
     key_prefix |-> s_user, ttl_seconds |-> short_ttl]
get_active_announcements ==
    [module |-> announcement_service_module, name |-> get_active_announcements_name,
     key_prefix |-> s_announcement, ttl_seconds |-> default_ttl]

\* The calls a request makes: the wrapped read and its arguments (self first).
Calls ==
    { [func |-> get_by_id_with_relations,
       args |-> <<UserService_1, PyInt(1)>>, kwargs |-> <<>>],
      [func |-> get_active_announcements,
       args |-> <<AnnouncementService_1>>, kwargs |-> <<>>] }

\* The calls whose keys are compared: the two reads, called on service
\* objects at either of two addresses and built with either of two sessions,
\* with the arguments positional or named, the named ones in either order.
Addresses == {"0x7f01", "0x7f02"}
Sessions == {"session1", "session2"}

KeyCalls ==
    { [func |-> get_by_id_with_relations,
       args |-> <<Instance("UserService", a, ss), PyInt(n)>>, kwargs |-> <<>>] :
         a \in Addresses, ss \in Sessions, n \in {1, 2} }
    \cup
    { [func |-> get_active_announcements,
       args |-> <<Instance("AnnouncementService", a, "session1")>>,
       kwargs |-> kw] :
         a \in Addresses,
         kw \in { <<>>,
                  << <<"page", PyInt(1)>>, <<"per_page", PyInt(10)>> >>,
                  << <<"per_page", PyInt(10)>>, <<"page", PyInt(1)>> >>,
                  << <<"page", PyInt(2)>>, <<"per_page", PyInt(10)>> >> } }

NoCall == [func |-> None, args |-> <<>>, kwargs |-> <<>>]

\* cached.wrapper, the key: func_name, prefixed when key_prefix is truthy,
\* then ":" and the digest of the arguments
build_cache_key(c) ==
    LET func_name == c.func.module \o Dot \o c.func.name
        prefixed == IF c.func.key_prefix # Empty
                    THEN c.func.key_prefix \o Dot \o func_name
                    ELSE func_name
    IN  prefixed \o Colon \o generate_cache_key(c.args, c.kwargs)

\* The keys of the calls the requests make, built once.
KeyOfCall == [c \in Calls |-> build_cache_key(c)]

\* cache_key, the wrapper's variable: the key built for the call, looked up
\* for the calls the requests make.
cache_key(c) == IF c \in Calls THEN KeyOfCall[c] ELSE build_cache_key(c)

\* Keys a caller of the store may use directly.
user_1 == <<"u","s","e","r",":","1">>
superuser_1 == <<"s","u","p","e","r","u","s","e","r",":","1">>

StoreKeys == {user_1, superuser_1}
Keys == StoreKeys \cup {cache_key(c) : c \in Calls}

\* BookmarkService.get_user_bookmarks: @cached(ttl_seconds=short_ttl,
\* key_prefix="bookmark") on a method whose arguments are self, page and
\* per_page; the user is self.current_user.
s_bookmark == <<"b","o","o","k","m","a","r","k">>
bookmark_service_module ==
    <<"a","p","p",".","s","e","r","v","i","c","e","s",".","b","o","o","k","m","a","r","k","_","s","e","r","v","i","c","e">>
get_user_bookmarks_name ==
    <<"g","e","t","_","u","s","e","r","_","b","o","o","k","m","a","r","k","s">>

get_user_bookmarks ==
    [module |-> bookmark_service_module, name |-> get_user_bookmarks_name,
     key_prefix |-> s_bookmark, ttl_seconds |-> short_ttl]

\* A BookmarkService object: as Instance, and the user it was built for.
BookmarkService(address, current_user) ==
    <<"inst", "BookmarkService", address, "session1", current_user>>

current_user(self) == self[5]

\* The calls of get_user_bookmarks: by either of two users, on a service
\* object at either address, for the first page (the default) or the second.
BookmarkCalls ==
    { [func |-> get_user_bookmarks,
       args |-> <<BookmarkService(a, u)>> \o page, kwargs |-> <<>>] :
         a \in Addresses, u \in {1, 2}, page \in {<<>>, <<PyInt(2)>>} }

\* What get_user_bookmarks returns: the page of the bookmarks of the user.
BookmarkListResponse(user_id, args) == <<"BookmarkListResponse", user_id, args>>

\* ------------------------------------------------------------ InMemoryCache
\* self._cache is a function from the stored keys to entries.
Entry(value, expires_at, created_at) ==
    [value |-> value, expires_at |-> expires_at, created_at |-> created_at]

Without(c, ks) == [k \in (DOMAIN c) \ ks |-> c[k]]

\* A get that answers None for an expired entry and leaves it in the store.
get_keeps_expired(c, t, key) ==
    IF key \in DOMAIN c /\ c[key].expires_at > t
    THEN [store |-> c, result |-> c[key].value]
    ELSE [store |-> c, result |-> None]

\* A get with sliding expiry: a hit gives the entry its ttl anew.
get_refreshes(c, t, key) ==
    IF key \in DOMAIN c
    THEN IF c[key].expires_at > t
         THEN [store |-> [c EXCEPT ![key].expires_at =
                             t + (c[key].expires_at - c[key].created_at)],
               result |-> c[key].value]
         ELSE [store |-> Without(c, {key}), result |-> None]
    ELSE [store |-> c, result |-> None]

\* A get that, finding its entry expired, drops every expired entry.
get_purges(c, t, key) ==
    IF key \in DOMAIN c
    THEN IF c[key].expires_at > t
         THEN [store |-> c, result |-> c[key].value]
         ELSE [store |-> Without(c, {k \in DOMAIN c : c[k].expires_at <= t}),
               result |-> None]
    ELSE [store |-> c, result |-> None]

\* InMemoryCache.get at time t: the store afterwards and the value returned
get(c, t, key) ==
    IF key \in DOMAIN c
    THEN IF c[key].expires_at > t
         THEN [store |-> c, result |-> c[key].value]
         ELSE [store |-> Without(c, {key}), result |-> None]
    ELSE [store |-> c, result |-> None]

\* A set that forgets the ttl: expires_at = datetime.now().
set_forgets_ttl(c, t, key, value, ttl_seconds) ==
    [k \in (DOMAIN c) \cup {key} |->
        IF k = key THEN [value |-> value, expires_at |-> t, created_at |-> t]
        ELSE c[k]]

\* InMemoryCache.set at time t
set(c, t, key, value, ttl_seconds) ==
    [k \in (DOMAIN c) \cup {key} |->
        IF k = key THEN Entry(value, t + ttl_seconds, t) ELSE c[k]]

\* A delete that drops every key in which the given key occurs.
delete_matching(c, key) == Without(c, {k \in DOMAIN c : contains(k, key)})

\* InMemoryCache.delete: pop(key, None)
delete(c, key) == Without(c, {key})

\* A clear written with popitem(): it drops one entry.
clear_popitem(c) ==
    IF c = <<>> THEN c ELSE Without(c, {CHOOSE k \in DOMAIN c : TRUE})

\* InMemoryCache.clear
clear(c) == Without(c, DOMAIN c)

\* A sweep that compares with < and so keeps what expires at this instant.
cleanup_expired_strict(c, t) ==
    LET expired_keys == {k \in DOMAIN c : c[k].expires_at < t}
    IN  [store |-> [k \in (DOMAIN c) \ expired_keys |-> c[k]],
         result |-> None,
         logged |-> Cardinality(expired_keys)]

\* A sweep that logs how many entries are left instead of how many went.
cleanup_expired_logs_rest(c, t) ==
    LET expired_keys == {k \in DOMAIN c : c[k].expires_at <= t}
    IN  [store |-> [k \in (DOMAIN c) \ expired_keys |-> c[k]],
         result |-> None,
         logged |-> Cardinality((DOMAIN c) \ expired_keys)]

\* InMemoryCache.cleanup_expired at time t: the store afterwards, the value
\* returned, and the count it logs (0: nothing is logged)
cleanup_expired(c, t) ==
    LET expired_keys == {k \in DOMAIN c : c[k].expires_at <= t}
    IN  [store |-> Without(c, expired_keys),
         result |-> None,
         logged |-> Cardinality(expired_keys)]

\* A get_stats that compares with < and so counts what expires at this
\* instant as active.
get_stats_strict(c, t) ==
    LET total_entries == Cardinality(DOMAIN c)
        expired_entries == Cardinality({k \in DOMAIN c : c[k].expires_at < t})
    IN  [total_entries |-> total_entries,
         active_entries |-> total_entries - expired_entries,
         expired_entries |-> expired_entries]

\* InMemoryCache.get_stats at time t
get_stats(c, t) ==
    LET total_entries == Cardinality(DOMAIN c)
        expired_entries == Cardinality({k \in DOMAIN c : c[k].expires_at <= t})
    IN  [total_entries |-> total_entries,
         active_entries |-> total_entries - expired_entries,
         expired_entries |-> expired_entries]

NoStats == [total_entries |-> 0, active_entries |-> 0, expired_entries |-> 0]

\* ------------------------------------------------------------ invalidation
\* The patterns a write is decorated with: @cache_invalidate(*key_patterns).
user_star == <<"u","s","e","r",":","*">>
announcement_star ==
    <<"a","n","n","o","u","n","c","e","m","e","n","t",":","*">>

\* The tuples the services declare, and all the tuples tried.
ServicePatterns == { <<user_star>>, <<announcement_star>> }
PatternTuples == ServicePatterns \cup { <<superuser_1>>, <<user_star, superuser_1>> }

\* Patterns no service declares: a "*" that is not the one last character,
\* and the empty pattern.
star_user_star == <<"*","u","s","e","r","*">>
us_star_er == <<"u","s","*","e","r">>

MalformedTuples == { <<star_user_star>>, <<us_star_er>>, <<Empty>> }

\* cache_invalidate.wrapper, one turn of `for pattern in key_patterns`:
\* the keys handed to cache.delete
keys_to_delete(c, pattern) ==
    IF endswith(pattern, Star)
    THEN LET prefix == SubSeq(pattern, 1, Len(pattern) - 1)
         IN  {key \in DOMAIN c : startswith(key, prefix)}
    ELSE {pattern}

\* cache_invalidate.wrapper, the whole loop after the write has returned
RECURSIVE invalidate(_, _)
invalidate(c, key_patterns) ==
    IF key_patterns = <<>>
    THEN c
    ELSE invalidate(Without(c, keys_to_delete(c, Head(key_patterns))),
                    Tail(key_patterns))

\* CacheManager.invalidate_resource_cache: the keys handed to cache.delete.
\* resource_id is None or an int; `if resource_id` is Python truthiness.
truthy(v) == v # None /\ v # PyInt(0)

resource_keys_to_delete(c, resource_type, resource_id) ==
    {key \in DOMAIN c :
        /\ contains(key, resource_type)
        /\ (~truthy(resource_id) \/ contains(key, str(resource_id[2])))}

ResourceTypes == {s_user}
ResourceIds == {None, PyInt(0), PyInt(1)}

\* ------------------------------------------------------------------- state
Readers == {"r1", "r2"}
Writers == {"w1"}
Tasks == Readers \cup Writers

VARIABLES
    cache,   \* InMemoryCache._cache of the global instance
    now,     \* what datetime.now() returns
    last,    \* the last call that ran: who made it, its arguments, its outcome
    pc,      \* per task: "idle", or "awaiting" the wrapped operation
    rcall,   \* per reader: the call in progress
    wcall,   \* per writer: the write in progress, its key_patterns and the
             \* keys that were stored when it was called
    sweeper, \* the task running cache_cleanup_task: where it is, the sleep it
             \* is in, whether a cancellation is waiting to be delivered
    lifespan,\* main.lifespan: "starting", "serving", "awaiting" the cancelled
             \* task, "done"
    lock,    \* InMemoryCache._lock: "free" or the task that holds it
    running, \* the task the event loop is running, "none" between two tasks
    inside,  \* per task: the store operation it is executing, and how far
    db,      \* the enrollment table and its id sequence
    req,     \* per request: the enrollment call in progress
    user_db, \* the row of user 1: the version committed last, and the last
             \* version whose write has finished its invalidation
    ureq,    \* per request: the UserService call in progress
    event_db,\* the event_enrollment table and its id sequence
    ereq     \* per request: the EventEnrollmentService call in progress

task_vars == <<sweeper, lifespan>>
loop_vars == <<lock, running, inside>>
db_vars == <<db, req>>
svc_vars == <<user_db, ureq, event_db, ereq>>

vars == <<cache, now, last, pc, rcall, wcall, task_vars, loop_vars, db_vars,
          svc_vars>>

\* op names the store operation, or "raise" when a wrapped operation raised and
\* "invalidate" when a decorated write returned; by is the task, "api" or
\* "sweeper"; at is the time of a set; result is what the caller received;
\* logged is the count in the log line; removed are the keys that left the store.
NoEvent ==
    [op |-> "none", by |-> "none", key |-> Empty, value |-> None, ttl |-> 0,
     at |-> 0, result |-> None, logged |-> 0, stats |-> NoStats,
     patterns |-> <<>>, removed |-> {}]

NoWrite == [key_patterns |-> <<>>, before |-> {}]

\* The sweeper before asyncio.create_task.
NoSweeper == [at |-> "none", interval |-> 0, must_cancel |-> FALSE]

\* A task that is in no store operation.
NoOp == [op |-> "none", key |-> Empty, value |-> None, ttl |-> 0,
         step |-> "out", expired_keys |-> {}]

\* A request that is in no enrollment call.
NoRequest == [call |-> "none", user_id |-> 0, course_id |-> 0,
              at |-> "idle", existing |-> 0]

\* A request that is in no UserService call.
NoUserCall == [call |-> "none", at |-> "idle", self |-> None, seen |-> 0,
               committed |-> 0]

\* A request that is in no EventEnrollmentService call.
NoEventCall == [at |-> "idle", user_id |-> 0, event_id |-> 0]

Init ==
    /\ cache = <<>>
    /\ now = 0
    /\ last = NoEvent
    /\ pc = [t \in Tasks |-> "idle"]
    /\ rcall = [r \in Readers |-> NoCall]
    /\ wcall = [w \in Writers |-> NoWrite]
    /\ sweeper = NoSweeper
    /\ lifespan = "starting"
    /\ lock = "free"
    /\ running = "none"
    /\ inside = [t \in Tasks |-> NoOp]
    /\ db = [enrollment |-> {}, next_id |-> 1]
    /\ req = [t \in Tasks |-> NoRequest]
    /\ user_db = [version |-> 0, invalidated |-> 0]
    /\ ureq = [t \in Tasks |-> NoUserCall]
    /\ event_db = [enrollment |-> {}, next_id |-> 1]
    /\ ereq = [t \in Tasks |-> NoEventCall]

\* The clock advances.
Tick ==
    /\ now < MaxTime
    /\ now' = now + 1
    /\ UNCHANGED <<cache, last, pc, rcall, wcall, task_vars, loop_vars, db_vars, svc_vars>>

\* ------------------------------------------- the store, called directly
ApiGet(key) ==
    LET g == get(cache, now, key)
    IN  /\ cache' = g.store
        /\ last' = [NoEvent EXCEPT !.op = "get", !.by = "api", !.key = key,
                                   !.result = g.result,
                                   !.removed = (DOMAIN cache) \ DOMAIN g.store]
        /\ UNCHANGED <<now, pc, rcall, wcall, task_vars, loop_vars, db_vars, svc_vars>>

ApiSet(key, value, ttl) ==
    /\ cache' = set(cache, now, key, value, ttl)
    /\ last' = [NoEvent EXCEPT !.op = "set", !.by = "api", !.key = key,
                               !.value = value, !.ttl = ttl, !.at = now]
    /\ UNCHANGED <<now, pc, rcall, wcall, task_vars, loop_vars, db_vars, svc_vars>>

ApiDelete(key) ==
    /\ cache' = delete(cache, key)
    /\ last' = [NoEvent EXCEPT !.op = "delete", !.by = "api", !.key = key,
                               !.removed = {key} \cap DOMAIN cache]
    /\ UNCHANGED <<now, pc, rcall, wcall, task_vars, loop_vars, db_vars, svc_vars>>

ApiClear ==
    /\ cache' = clear(cache)
    /\ last' = [NoEvent EXCEPT !.op = "clear", !.by = "api",
                               !.removed = DOMAIN cache]
    /\ UNCHANGED <<now, pc, rcall, wcall, task_vars, loop_vars, db_vars, svc_vars>>

\* cache_cleanup_task, one turn of its loop: the sweep
Sweep ==
    LET s == cleanup_expired(cache, now)
    IN  /\ cache' = s.store
        /\ last' = [NoEvent EXCEPT !.op = "cleanup_expired", !.by = "sweeper",
                                   !.result = s.result, !.logged = s.logged,
                                   !.removed = (DOMAIN cache) \ DOMAIN s.store]
        /\ UNCHANGED <<now, pc, rcall, wcall, task_vars, loop_vars, db_vars, svc_vars>>

ApiGetStats ==
    /\ last' = [NoEvent EXCEPT !.op = "get_stats", !.by = "api",
                               !.stats = get_stats(cache, now)]
    /\ UNCHANGED <<cache, now, pc, rcall, wcall, task_vars, loop_vars, db_vars, svc_vars>>

\* CacheManager.invalidate_resource_cache(resource_type, resource_id)
InvalidateResource(resource_type, resource_id) ==
    LET ks == resource_keys_to_delete(cache, resource_type, resource_id)
    IN  /\ cache' = Without(cache, ks)
        /\ last' = [NoEvent EXCEPT !.op = "invalidate_resource_cache",
                                   !.by = "api", !.key = resource_type,
                                   !.value = resource_id,
                                   !.logged = Cardinality(ks),
                                   !.removed = ks]
        /\ UNCHANGED <<now, pc, rcall, wcall, task_vars, loop_vars, db_vars, svc_vars>>

\* ------------------------------------------------- cached.wrapper (a read)
\* A wrapper that deduplicates: a call that misses while another task is
\* awaiting the same call joins that task instead of invoking the function.
ReadCall_singleflight(r, c) ==
    LET key == cache_key(c)
        g == get(cache, now, key)
        cached_result == g.result
        in_flight == \E q \in Readers \ {r} : pc[q] = "awaiting" /\ rcall[q] = c
    IN  /\ pc[r] = "idle"
        /\ cache' = g.store
        /\ last' = [NoEvent EXCEPT !.op = "get", !.by = r, !.key = key,
                                   !.result = cached_result,
                                   !.removed = (DOMAIN cache) \ DOMAIN g.store]
        /\ IF cached_result # None
           THEN UNCHANGED <<pc, rcall>>
           ELSE IF in_flight
                THEN pc' = [pc EXCEPT ![r] = "joined"] /\ UNCHANGED rcall
                ELSE /\ pc' = [pc EXCEPT ![r] = "awaiting"]
                     /\ rcall' = [rcall EXCEPT ![r] = c]
        /\ UNCHANGED <<now, wcall, task_vars, loop_vars, db_vars, svc_vars>>

\* The call up to `await func(...)`: build the key, cache.get, return on a hit.
ReadCall(r, c) ==
    LET key == cache_key(c)
        g == get(cache, now, key)
        cached_result == g.result
    IN  /\ pc[r] = "idle"
        /\ cache' = g.store
        /\ last' = [NoEvent EXCEPT !.op = "get", !.by = r, !.key = key,
                                   !.result = cached_result,
                                   !.removed = (DOMAIN cache) \ DOMAIN g.store]
        /\ IF cached_result # None
           THEN UNCHANGED <<pc, rcall>>
           ELSE /\ pc' = [pc EXCEPT ![r] = "awaiting"]
                /\ rcall' = [rcall EXCEPT ![r] = c]
        /\ UNCHANGED <<now, wcall, task_vars, loop_vars, db_vars, svc_vars>>

\* The first lines of the wrapper alone: the key of the call r is to make.
BuildKey(r) ==
    /\ last' = [NoEvent EXCEPT !.op = "cache_key", !.by = r,
                               !.key = cache_key(rcall[r])]
    /\ UNCHANGED <<cache, now, pc, rcall, wcall, task_vars, loop_vars, db_vars, svc_vars>>

\* func returns result: cache.set(cache_key, result, ttl_seconds), return it.
ReadFuncReturn(r, result) ==
    LET key == cache_key(rcall[r])
        ttl_seconds == rcall[r].func.ttl_seconds
    IN  /\ pc[r] = "awaiting"
        /\ cache' = set(cache, now, key, result, ttl_seconds)
        /\ last' = [NoEvent EXCEPT !.op = "set", !.by = r, !.key = key,
                                   !.value = result, !.ttl = ttl_seconds,
                                   !.at = now, !.result = result]
        /\ pc' = [pc EXCEPT ![r] = "idle"]
        /\ rcall' = [rcall EXCEPT ![r] = NoCall]
        /\ UNCHANGED <<now, wcall, task_vars, loop_vars, db_vars, svc_vars>>

\* func raises e: the wrapper has no handler, e reaches the caller.
ReadFuncRaise(r, e) ==
    /\ pc[r] = "awaiting"
    /\ last' = [NoEvent EXCEPT !.op = "raise", !.by = r,
                               !.key = cache_key(rcall[r]), !.result = e]
    /\ pc' = [pc EXCEPT ![r] = "idle"]
    /\ rcall' = [rcall EXCEPT ![r] = NoCall]
    /\ UNCHANGED <<cache, now, wcall, task_vars, loop_vars, db_vars, svc_vars>>

\* A request calls get_user_bookmarks on the BookmarkService object it has
\* built for its user.  The object lives until the call has ended; a new
\* object is allocated at any address where no live object is.
LiveAddresses ==
    { rcall[q].args[1][3] : q \in {x \in Readers : pc[x] = "awaiting"} }

BookmarksCall(r, c) ==
    /\ c.args[1][3] \notin LiveAddresses
    /\ ReadCall(r, c)

\* get_user_bookmarks returns the page of self.current_user's bookmarks.
BookmarksReturn(r) ==
    /\ pc[r] = "awaiting"
    /\ ReadFuncReturn(r, BookmarkListResponse(current_user(rcall[r].args[1]),
                                              Tail(rcall[r].args)))

\* ---------------------------------------- cache_invalidate.wrapper (a write)
\* The wrapped write is opaque: it returns or raises.  A cached read it makes
\* on its way acts on the store as a reader's call does while the write waits.
WriteCall(w, key_patterns) ==
    /\ pc[w] = "idle"
    /\ pc' = [pc EXCEPT ![w] = "awaiting"]
    /\ wcall' = [wcall EXCEPT ![w] = [key_patterns |-> key_patterns,
                                      before |-> DOMAIN cache]]
    /\ UNCHANGED <<cache, now, last, rcall, task_vars, loop_vars, db_vars, svc_vars>>

\* func returns: the loop over key_patterns runs, then the result is returned.
\* No other task runs between the deletes: the lock is free at each of them.
WriteFuncReturn(w) ==
    LET after == invalidate(cache, wcall[w].key_patterns)
    IN  /\ pc[w] = "awaiting"
        /\ cache' = after
        /\ last' = [NoEvent EXCEPT !.op = "invalidate", !.by = w,
                                   !.patterns = wcall[w].key_patterns,
                                   !.result = Obj("written"),
                                   !.removed = (DOMAIN cache) \ DOMAIN after]
        /\ pc' = [pc EXCEPT ![w] = "idle"]
        /\ wcall' = [wcall EXCEPT ![w] = NoWrite]
        /\ UNCHANGED <<now, rcall, task_vars, loop_vars, db_vars, svc_vars>>

\* A wrapper that invalidates in a `finally`, whether the write raised or not.
WriteFuncRaise_finally(w, e) ==
    /\ pc[w] = "awaiting"
    /\ cache' = invalidate(cache, wcall[w].key_patterns)
    /\ last' = [NoEvent EXCEPT !.op = "raise", !.by = w,
                               !.patterns = wcall[w].key_patterns,
                               !.result = e]
    /\ pc' = [pc EXCEPT ![w] = "idle"]
    /\ wcall' = [wcall EXCEPT ![w] = NoWrite]
    /\ UNCHANGED <<now, rcall, task_vars, loop_vars, db_vars, svc_vars>>

\* func raises e: nothing after `await func(...)` runs.
WriteFuncRaise(w, e) ==
    /\ pc[w] = "awaiting"
    /\ last' = [NoEvent EXCEPT !.op = "raise", !.by = w,
                               !.patterns = wcall[w].key_patterns,
                               !.result = e]
    /\ pc' = [pc EXCEPT ![w] = "idle"]
    /\ wcall' = [wcall EXCEPT ![w] = NoWrite]
    /\ UNCHANGED <<cache, now, rcall, task_vars, loop_vars, db_vars, svc_vars>>

\* ------------------------------------ the store, one await point at a time
\* The event loop runs one task until that task suspends.  A store operation
\* is entered (`async with self._lock`, which suspends only when the lock is
\* taken), its body runs, and it is left (the lock is released).
StoreOps == {"get", "set", "delete", "clear", "cleanup_expired", "get_stats"}

\* The operations that take the lock: get_stats is a plain `def` without it.
Locked(op) == op # "get_stats"

\* Task t calls the store, or is woken to try the lock again.
Enter(t, op, key) ==
    /\ running = "none"
    /\ \/ inside[t].step = "out"
       \/ inside[t].step = "waiting" /\ inside[t].op = op /\ inside[t].key = key
    /\ IF Locked(op) /\ lock # "free"
       THEN /\ inside' = [inside EXCEPT ![t] =
                             [NoOp EXCEPT !.op = op, !.key = key,
                                          !.step = "waiting"]]
            /\ UNCHANGED <<lock, running>>
       ELSE /\ inside' = [inside EXCEPT ![t] =
                             [NoOp EXCEPT !.op = op, !.key = key,
                                          !.value = Obj("a"),
                                          !.ttl = short_ttl,
                                          !.step = "body"]]
            /\ lock' = IF Locked(op) THEN t ELSE lock
            /\ running' = t
    /\ UNCHANGED <<cache, now, last, pc, rcall, wcall, task_vars, db_vars, svc_vars>>

\* The body of the operation, up to its end; cleanup_expired first builds
\* expired_keys and deletes them in a second step.
BodyEffect(t) ==
    LET o == inside[t]
        g == get(cache, now, o.key)
        s == cleanup_expired(cache, now)
    IN  CASE o.op = "get" ->
               /\ cache' = g.store
               /\ last' = [NoEvent EXCEPT !.op = "get", !.by = t, !.key = o.key,
                                          !.result = g.result,
                                          !.removed = (DOMAIN cache) \ DOMAIN g.store]
               /\ inside' = [inside EXCEPT ![t].step = "exit"]
          [] o.op = "set" ->
               /\ cache' = set(cache, now, o.key, o.value, o.ttl)
               /\ last' = [NoEvent EXCEPT !.op = "set", !.by = t, !.key = o.key,
                                          !.value = o.value, !.ttl = o.ttl,
                                          !.at = now]
               /\ inside' = [inside EXCEPT ![t].step = "exit"]
          [] o.op = "delete" ->
               /\ cache' = delete(cache, o.key)
               /\ last' = [NoEvent EXCEPT !.op = "delete", !.by = t, !.key = o.key,
                                          !.removed = {o.key} \cap DOMAIN cache]
               /\ inside' = [inside EXCEPT ![t].step = "exit"]
          [] o.op = "clear" ->
               /\ cache' = clear(cache)
               /\ last' = [NoEvent EXCEPT !.op = "clear", !.by = t,
                                          !.removed = DOMAIN cache]
               /\ inside' = [inside EXCEPT ![t].step = "exit"]
          [] o.op = "cleanup_expired" /\ o.step = "body" ->
               /\ inside' = [inside EXCEPT
                                ![t].expired_keys = (DOMAIN cache) \ DOMAIN s.store,
                                ![t].step = "deleting"]
               /\ UNCHANGED <<cache, last>>
          [] o.op = "cleanup_expired" /\ o.step = "deleting" ->
               /\ cache' = Without(cache, o.expired_keys)
               /\ last' = [NoEvent EXCEPT !.op = "cleanup_expired", !.by = t,
                                          !.logged = Cardinality(o.expired_keys),
                                          !.removed = o.expired_keys \cap DOMAIN cache]
               /\ inside' = [inside EXCEPT ![t].step = "exit"]
          [] o.op = "get_stats" ->
               /\ last' = [NoEvent EXCEPT !.op = "get_stats", !.by = t,
                                          !.stats = get_stats(cache, now)]
               /\ inside' = [inside EXCEPT ![t].step = "exit"]
               /\ UNCHANGED cache

\* A body with an await in it: the task suspends inside the operation.
Body_awaits(t) ==
    /\ running = t
    /\ inside[t].step \in {"body", "deleting"}
    /\ BodyEffect(t)
    /\ running' = "none"
    /\ UNCHANGED <<now, pc, rcall, wcall, lock, task_vars, db_vars, svc_vars>>

\* The body runs without an await: the task keeps the event loop.
Body(t) ==
    /\ running = t
    /\ inside[t].step \in {"body", "deleting"}
    /\ BodyEffect(t)
    /\ UNCHANGED <<now, pc, rcall, wcall, lock, running, task_vars, db_vars, svc_vars>>

\* An operation that returns without releasing the lock.
Exit_keeps_lock(t) ==
    /\ inside[t].step = "exit"
    /\ \/ running = t
       \/ running = "none"
    /\ inside' = [inside EXCEPT ![t] = NoOp]
    /\ running' = "none"
    /\ UNCHANGED <<cache, now, last, pc, rcall, wcall, lock, task_vars, db_vars, svc_vars>>

\* The operation returns: the lock, if taken, is released; the caller goes
\* on to its next await, where the event loop may run another task.
Exit(t) ==
    /\ inside[t].step = "exit"
    /\ \/ running = t
       \/ running = "none"
    /\ inside' = [inside EXCEPT ![t] = NoOp]
    /\ lock' = IF lock = t THEN "free" ELSE lock
    /\ running' = "none"
    /\ UNCHANGED <<cache, now, last, pc, rcall, wcall, task_vars, db_vars, svc_vars>>

\* task.cancel() by another task, as the lifespan does to the sweeper: it
\* can only be called while t is suspended, at an await outside the store or
\* in the lock's acquire.  CancelledError is raised in t at that await: an
\* acquire that is cancelled has not taken the lock; the task ends.
Cancel(t) ==
    /\ running = "none"
    /\ inside[t].step \in {"out", "waiting"}
    /\ inside' = [inside EXCEPT ![t] = [NoOp EXCEPT !.step = "cancelled"]]
    /\ lock' = IF lock = t THEN "free" ELSE lock
    /\ UNCHANGED <<cache, now, last, pc, rcall, wcall, running, task_vars, db_vars, svc_vars>>

\* ------------------------------------------------------ EnrollmentService
\* The users who call and the course ids they name; the course table holds
\* the course with id 1 and no other.
UserIds == {1, 2}
CourseIds == {1, 2}
Courses == {1}

\* Rows of the enrollment table; user_id and course_id are plain columns,
\* the table has no unique constraint over them.
Enrollment(id, course_id, user_id, status) ==
    [id |-> id, course_id |-> course_id, user_id |-> user_id, status |-> status]

\* select(Enrollment).where(course_id == ..., user_id == ...): the ids of
\* the rows that match
Matching(rows, user_id, course_id) ==
    {e.id : e \in {x \in rows : x.user_id = user_id /\ x.course_id = course_id}}

\* What an event of the service is about.
About(user_id, course_id) == <<"enrollment", user_id, course_id>>

\* enroll, up to the commit: the course is looked up, then the user's
\* enrollment in it; .first() without an order takes any row that matches.
\* Each request has its own session; it reads what is committed.
EnrollSelect(t, user_id, course_id) ==
    /\ req[t].at = "idle"
    /\ IF course_id \notin Courses
       THEN /\ last' = [NoEvent EXCEPT !.op = "enroll", !.by = t,
                                       !.value = About(user_id, course_id),
                                       !.result = Exc("404 Course not found")]
            /\ UNCHANGED req
       ELSE /\ \E existing \in
                   IF Matching(db.enrollment, user_id, course_id) = {}
                   THEN {0}
                   ELSE Matching(db.enrollment, user_id, course_id) :
                  req' = [req EXCEPT ![t] =
                            [call |-> "enroll", user_id |-> user_id,
                             course_id |-> course_id, at |-> "selected",
                             existing |-> existing]]
            /\ UNCHANGED last
    /\ UNCHANGED <<cache, now, pc, rcall, wcall, db, task_vars, loop_vars, svc_vars>>

\* enroll, the commit and the return.  With a row found: its status is set
\* to "enrolled", commit, refresh, its id is returned; refresh raises when
\* another request has deleted the row meanwhile.  Without: a row is added,
\* the commit gives it the next id, which is returned.
EnrollCommit(t) ==
    LET r == req[t]
        found == {e \in db.enrollment : e.id = r.existing}
    IN  /\ r.call = "enroll"
        /\ r.at = "selected"
        /\ IF r.existing # 0
           THEN IF found # {}
                THEN /\ db' = [db EXCEPT !.enrollment =
                                  (db.enrollment \ found) \cup
                                  {[e EXCEPT !.status = "enrolled"] : e \in found}]
                     /\ last' = [NoEvent EXCEPT
                                    !.op = "enroll", !.by = t,
                                    !.value = About(r.user_id, r.course_id),
                                    !.result = PyInt(r.existing)]
                ELSE /\ last' = [NoEvent EXCEPT
                                    !.op = "enroll", !.by = t,
                                    !.value = About(r.user_id, r.course_id),
                                    !.result = Exc("InvalidRequestError")]
                     /\ UNCHANGED db
           ELSE /\ db.next_id <= MaxEnrollmentId
                /\ db' = [enrollment |-> db.enrollment \cup
                                           {Enrollment(db.next_id, r.course_id,
                                                       r.user_id, "enrolled")},
                          next_id |-> db.next_id + 1]
                /\ last' = [NoEvent EXCEPT
                               !.op = "enroll", !.by = t,
                               !.value = About(r.user_id, r.course_id),
                               !.result = PyInt(db.next_id)]
        /\ req' = [req EXCEPT ![t] = NoRequest]
        /\ UNCHANGED <<cache, now, pc, rcall, wcall, task_vars, loop_vars, svc_vars>>

\* cancel, up to the delete: the user's enrollment in the course is looked
\* up; without one, 404.
CancelSelect(t, user_id, course_id) ==
    /\ req[t].at = "idle"
    /\ IF Matching(db.enrollment, user_id, course_id) = {}
       THEN /\ last' = [NoEvent EXCEPT !.op = "cancel", !.by = t,
                                       !.value = About(user_id, course_id),
                                       !.result = Exc("404 Enrollment not found")]
            /\ UNCHANGED req
       ELSE /\ \E enrollment \in Matching(db.enrollment, user_id, course_id) :
                  req' = [req EXCEPT ![t] =
                            [call |-> "cancel", user_id |-> user_id,
                             course_id |-> course_id, at |-> "selected",
                             existing |-> enrollment]]
            /\ UNCHANGED last
    /\ UNCHANGED <<cache, now, pc, rcall, wcall, db, task_vars, loop_vars, svc_vars>>

\* cancel, the delete, the commit and the return of {"ok": True}.
CancelCommit(t) ==
    LET r == req[t]
    IN  /\ r.call = "cancel"
        /\ r.at = "selected"
        /\ db' = [db EXCEPT !.enrollment =
                     {e \in db.enrollment : e.id # r.existing}]
        /\ last' = [NoEvent EXCEPT !.op = "cancel", !.by = t,
                                   !.value = About(r.user_id, r.course_id),
                                   !.result = Obj("ok")]
        /\ req' = [req EXCEPT ![t] = NoRequest]
        /\ UNCHANGED <<cache, now, pc, rcall, wcall, task_vars, loop_vars, svc_vars>>

\* ------------------------------------------------- EventEnrollmentService
\* The event table holds one event, id 1, active, with capacity 1; the
\* requests name event 1 or 2.
EventIds == {1, 2}
Events == {1}
capacity == [e \in Events |-> 1]

\* Rows of the event_enrollment table; the table has indexes and no unique
\* constraint.
EventEnrollment(id, event_id, user_id) ==
    [id |-> id, event_id |-> event_id, user_id |-> user_id, status |-> "enrolled"]

\* select(func.count(EventEnrollment.id)).where(event_id == ...)
_get_enrollment_count(rows, event_id) ==
    Cardinality({x \in rows : x.event_id = event_id})

\* What an event of the service is about.
AboutEvent(user_id, event_id) == <<"event_enrollment", user_id, event_id>>

\* enroll, await self.session.get(Event, data.event_id): 404 without the
\* event.
EventEnrollGet(t, user_id, event_id) ==
    /\ ereq[t].at = "idle"
    /\ IF event_id \notin Events
       THEN /\ last' = [NoEvent EXCEPT !.op = "event_enroll", !.by = t,
                                       !.value = AboutEvent(user_id, event_id),
                                       !.result = Exc("404")]
            /\ UNCHANGED ereq
       ELSE /\ ereq' = [ereq EXCEPT ![t] = [at |-> "got", user_id |-> user_id,
                                            event_id |-> event_id]]
            /\ UNCHANGED last
    /\ UNCHANGED <<cache, now, pc, rcall, wcall, user_db, ureq, event_db,
                   task_vars, loop_vars, db_vars>>

\* enroll, the select of the user's enrollment in the event: 400 with one.
EventEnrollExisting(t) ==
    LET r == ereq[t]
        existing_enrollment ==
            {x \in event_db.enrollment :
                x.event_id = r.event_id /\ x.user_id = r.user_id}
    IN  /\ r.at = "got"
        /\ IF existing_enrollment # {}
           THEN /\ last' = [NoEvent EXCEPT !.op = "event_enroll", !.by = t,
                                           !.value = AboutEvent(r.user_id, r.event_id),
                                           !.result = Exc("400 already enrolled")]
                /\ ereq' = [ereq EXCEPT ![t] = NoEventCall]
           ELSE /\ ereq' = [ereq EXCEPT ![t].at = "checked"]
                /\ UNCHANGED last
        /\ UNCHANGED <<cache, now, pc, rcall, wcall, user_db, ureq, event_db,
                       task_vars, loop_vars, db_vars>>

\* enroll, the count: 400 when current_enrolled >= event.capacity.
EventEnrollCount(t) ==
    LET r == ereq[t]
        current_enrolled == _get_enrollment_count(event_db.enrollment, r.event_id)
    IN  /\ r.at = "checked"
        /\ IF current_enrolled >= capacity[r.event_id]
           THEN /\ last' = [NoEvent EXCEPT !.op = "event_enroll", !.by = t,
                                           !.value = AboutEvent(r.user_id, r.event_id),
                                           !.result = Exc("400 full")]
                /\ ereq' = [ereq EXCEPT ![t] = NoEventCall]
           ELSE /\ ereq' = [ereq EXCEPT ![t].at = "counted"]
                /\ UNCHANGED last
        /\ UNCHANGED <<cache, now, pc, rcall, wcall, user_db, ureq, event_db,
                       task_vars, loop_vars, db_vars>>

\* enroll, the add, the commit, the refresh and the return of the new row.
EventEnrollCommit(t) ==
    LET r == ereq[t]
    IN  /\ r.at = "counted"
        /\ event_db' = [enrollment |-> event_db.enrollment \cup
                                         {EventEnrollment(event_db.next_id,
                                                          r.event_id, r.user_id)},
                        next_id |-> event_db.next_id + 1]
        /\ last' = [NoEvent EXCEPT !.op = "event_enroll", !.by = t,
                                   !.value = AboutEvent(r.user_id, r.event_id),
                                   !.result = PyInt(event_db.next_id)]
        /\ ereq' = [ereq EXCEPT ![t] = NoEventCall]
        /\ UNCHANGED <<cache, now, pc, rcall, wcall, user_db, ureq,
                       task_vars, loop_vars, db_vars>>

\* ------------------------------------------------------------ UserService
\* What get_by_id_with_relations returns for user 1: the UserRead built from
\* the row as it was at the given version.
UserRead(version) == <<"UserRead", 1, version>>

\* The cached call self.get_by_id_with_relations(1) on the service object.
GetByIdCallOf(self) ==
    [func |-> get_by_id_with_relations, args |-> <<self, PyInt(1)>>,
     kwargs |-> <<>>]

\* The service objects a request may be given: a new object lives at any
\* address that no object of a request in progress lives at.
UserServices == { Instance("UserService", a, "session1") : a \in Addresses }

FreeUserServices ==
    { self \in UserServices :
        \A q \in Tasks : ureq[q].call = "none" \/ ureq[q].self[3] # self[3] }

\* What cache_invalidate("user:*") does once the wrapped write has returned.
user_patterns == <<user_star>>

\* A request calls get_by_id_with_relations(1) on its service object: the
\* wrapper builds the key and awaits cache.get; a hit is returned at once.
GetByIdCall(t, self) ==
    LET key == cache_key(GetByIdCallOf(self))
        g == get(cache, now, key)
    IN  /\ ureq[t].call = "none"
        /\ self \in FreeUserServices
        /\ cache' = g.store
        /\ last' = [NoEvent EXCEPT !.op = "get", !.by = t, !.key = key,
                                   !.result = g.result,
                                   !.removed = (DOMAIN cache) \ DOMAIN g.store]
        /\ IF g.result # None
           THEN UNCHANGED ureq
           ELSE ureq' = [ureq EXCEPT ![t] =
                           [NoUserCall EXCEPT !.call = "read", !.at = "missed",
                                              !.self = self]]
        /\ UNCHANGED <<now, pc, rcall, wcall, user_db, event_db, ereq,
                       task_vars, loop_vars, db_vars>>

\* get_by_id_with_relations, await self.session.execute(stmt): the row is
\* read as it is committed now.
GetByIdQuery(t) ==
    /\ ureq[t].at = "missed"
    /\ ureq' = [ureq EXCEPT ![t].at = "queried", ![t].seen = user_db.version]
    /\ UNCHANGED <<cache, now, last, pc, rcall, wcall, user_db, event_db, ereq,
                   task_vars, loop_vars, db_vars>>

\* get_by_id_with_relations returns the UserRead of the row it read; the
\* wrapper stores it and returns it.  Called from a request, that ends the
\* call.  Called from update_profile, update_profile returns it and the
\* decorator runs its invalidation and returns it: none of this suspends.
GetByIdStore(t) ==
    LET u == ureq[t]
        key == cache_key(GetByIdCallOf(u.self))
        result == UserRead(u.seen)
        stored == set(cache, now, key, result, short_ttl)
        after == invalidate(stored, user_patterns)
    IN  /\ u.at = "queried"
        /\ IF u.call = "read"
           THEN /\ cache' = stored
                /\ last' = [NoEvent EXCEPT !.op = "set", !.by = t, !.key = key,
                                           !.value = result, !.ttl = short_ttl,
                                           !.at = now, !.result = result]
                /\ UNCHANGED user_db
           ELSE /\ cache' = after
                /\ last' = [NoEvent EXCEPT !.op = "invalidate", !.by = t,
                                           !.key = key, !.value = result,
                                           !.patterns = user_patterns,
                                           !.result = result,
                                           !.removed = (DOMAIN stored) \ DOMAIN after]
                /\ user_db' = [user_db EXCEPT !.invalidated =
                                  IF u.committed > @ THEN u.committed ELSE @]
        /\ ureq' = [ureq EXCEPT ![t] = NoUserCall]
        /\ UNCHANGED <<now, pc, rcall, wcall, event_db, ereq,
                       task_vars, loop_vars, db_vars>>

\* A request calls update_profile(1, update_data): check_permission passes,
\* await self.session.get(User, 1) suspends.
UpdateProfileCall(t, self) ==
    /\ ureq[t].call = "none"
    /\ self \in FreeUserServices
    /\ user_db.version < MaxVersion
    /\ ureq' = [ureq EXCEPT ![t] =
                   [NoUserCall EXCEPT !.call = "update", !.at = "started",
                                      !.self = self]]
    /\ UNCHANGED <<cache, now, last, pc, rcall, wcall, user_db, event_db, ereq,
                   task_vars, loop_vars, db_vars>>

\* update_profile raises (the faculty is not valid, or the database fails):
\* the exception passes the decorator, nothing is invalidated.
UpdateProfileRaise(t, e) ==
    /\ ureq[t].call = "update"
    /\ ureq[t].at = "started"
    /\ last' = [NoEvent EXCEPT !.op = "raise", !.by = t,
                               !.patterns = user_patterns, !.result = e]
    /\ ureq' = [ureq EXCEPT ![t] = NoUserCall]
    /\ UNCHANGED <<cache, now, pc, rcall, wcall, user_db, event_db, ereq,
                   task_vars, loop_vars, db_vars>>

\* update_profile, await self.session.commit(): the row has a new version.
UpdateProfileCommit(t) ==
    /\ ureq[t].call = "update"
    /\ ureq[t].at = "started"
    /\ user_db.version < MaxVersion
    /\ user_db' = [user_db EXCEPT !.version = @ + 1]
    /\ ureq' = [ureq EXCEPT ![t].at = "committed",
                            ![t].committed = user_db.version + 1]
    /\ UNCHANGED <<cache, now, last, pc, rcall, wcall, event_db, ereq,
                   task_vars, loop_vars, db_vars>>

\* update_profile, after the refresh: return await
\* self.get_by_id_with_relations(1).  The wrapper awaits cache.get; on a hit
\* the entry's value is returned to update_profile, which returns it, and
\* the decorator invalidates and returns it.
UpdateProfileRead(t) ==
    LET u == ureq[t]
        key == cache_key(GetByIdCallOf(u.self))
        g == get(cache, now, key)
        after == invalidate(g.store, user_patterns)
    IN  /\ u.call = "update"
        /\ u.at = "committed"
        /\ IF g.result # None
           THEN /\ cache' = after
                /\ last' = [NoEvent EXCEPT !.op = "invalidate", !.by = t,
                                           !.key = key,
                                           !.patterns = user_patterns,
                                           !.result = g.result,
                                           !.removed = (DOMAIN cache) \ DOMAIN after]
                /\ user_db' = [user_db EXCEPT !.invalidated =
                                  IF u.committed > @ THEN u.committed ELSE @]
                /\ ureq' = [ureq EXCEPT ![t] = NoUserCall]
           ELSE /\ cache' = g.store
                /\ last' = [NoEvent EXCEPT !.op = "get", !.by = t, !.key = key,
                                           !.result = g.result,
                                           !.removed = (DOMAIN cache) \ DOMAIN g.store]
                /\ ureq' = [ureq EXCEPT ![t].at = "missed"]
                /\ UNCHANGED user_db
        /\ UNCHANGED <<now, pc, rcall, wcall, event_db, ereq,
                       task_vars, loop_vars, db_vars>>

\* ------------------------------------- cache_cleanup_task and main.lifespan
\* The two sleeps of the loop, in minutes: asyncio.sleep(300) after a sweep,
\* asyncio.sleep(60) after a sweep that raised.
sleep_after_sweep == 5
sleep_after_error == 1

\* lifespan, before the yield: asyncio.create_task(cache_cleanup_task()).
\* The task is created and has not run yet.
Startup ==
    /\ lifespan = "starting"
    /\ lifespan' = "serving"
    /\ sweeper' = [at |-> "created", interval |-> 0, must_cancel |-> FALSE]
    /\ UNCHANGED <<cache, now, last, pc, rcall, wcall, loop_vars, db_vars, svc_vars>>

\* The task may take a turn of `while True`: it has just been created or its
\* sleep has completed, and no cancellation is waiting for it.
SweeperReady ==
    /\ sweeper.at \in {"created", "woken"}
    /\ ~ sweeper.must_cancel

\* A loop that sweeps again at once, without the sleep.
SweeperSweep_nosleep ==
    LET s == cleanup_expired(cache, now)
    IN  /\ SweeperReady
        /\ cache' = s.store
        /\ last' = [NoEvent EXCEPT !.op = "cleanup_expired", !.by = "sweeper",
                                   !.result = s.result, !.logged = s.logged,
                                   !.removed = (DOMAIN cache) \ DOMAIN s.store]
        /\ sweeper' = [sweeper EXCEPT !.at = "woken", !.interval = 0]
        /\ UNCHANGED <<now, pc, rcall, wcall, lifespan, loop_vars, db_vars, svc_vars>>

\* One turn of the loop, the try body: await cache.cleanup_expired() returns,
\* then await asyncio.sleep(300) suspends the task.
SweeperSweep ==
    LET s == cleanup_expired(cache, now)
    IN  /\ SweeperReady
        /\ cache' = s.store
        /\ last' = [NoEvent EXCEPT !.op = "cleanup_expired", !.by = "sweeper",
                                   !.result = s.result, !.logged = s.logged,
                                   !.removed = (DOMAIN cache) \ DOMAIN s.store]
        /\ sweeper' = [sweeper EXCEPT !.at = "sleeping",
                                      !.interval = sleep_after_sweep]
        /\ UNCHANGED <<now, pc, rcall, wcall, lifespan, loop_vars, db_vars, svc_vars>>

\* A loop without the handler: the exception ends the task.
SweeperSweepRaises_fatal(e) ==
    /\ SweeperReady
    /\ last' = [NoEvent EXCEPT !.op = "raise", !.by = "sweeper", !.result = e]
    /\ sweeper' = [sweeper EXCEPT !.at = "failed", !.interval = 0]
    /\ UNCHANGED <<cache, now, pc, rcall, wcall, lifespan, loop_vars, db_vars, svc_vars>>

\* One turn of the loop, the handler: cleanup_expired raises e, `except
\* Exception` logs it, then await asyncio.sleep(60) suspends the task.
SweeperSweepRaises(e) ==
    /\ SweeperReady
    /\ last' = [NoEvent EXCEPT !.op = "raise", !.by = "sweeper", !.result = e]
    /\ sweeper' = [sweeper EXCEPT !.at = "sleeping",
                                  !.interval = sleep_after_error]
    /\ UNCHANGED <<cache, now, pc, rcall, wcall, lifespan, loop_vars, db_vars, svc_vars>>

\* The sleep completes: the task is scheduled to go round the loop.  A
\* cancellation cancels the sleep the task is waiting in, which then never
\* completes.
SleepDone ==
    /\ sweeper.at = "sleeping"
    /\ ~ sweeper.must_cancel
    /\ sweeper' = [sweeper EXCEPT !.at = "woken"]
    /\ UNCHANGED <<cache, now, last, pc, rcall, wcall, lifespan, loop_vars, db_vars, svc_vars>>

\* lifespan, the finally: cache_task.cancel(), then await cache_task.
Shutdown ==
    /\ lifespan = "serving"
    /\ lifespan' = "awaiting"
    /\ sweeper' = [sweeper EXCEPT !.must_cancel = TRUE]
    /\ UNCHANGED <<cache, now, last, pc, rcall, wcall, loop_vars, db_vars, svc_vars>>

\* A loop whose handler catches the cancellation too (`except BaseException`):
\* it logs and sleeps 60 s, and the cancellation is spent.
SweeperCancelled_swallowed ==
    /\ sweeper.must_cancel
    /\ sweeper.at \in {"created", "sleeping", "woken"}
    /\ sweeper' = [at |-> "sleeping", interval |-> sleep_after_error,
                   must_cancel |-> FALSE]
    /\ UNCHANGED <<cache, now, last, pc, rcall, wcall, lifespan, loop_vars, db_vars, svc_vars>>

\* The cancellation is delivered when the task next runs: CancelledError is
\* raised at its await (before the first statement for a task that never
\* ran).  CancelledError is no Exception, the handler lets it pass, the
\* task ends.
SweeperCancelled ==
    /\ sweeper.must_cancel
    /\ sweeper.at \in {"created", "sleeping", "woken"}
    /\ sweeper' = [at |-> "stopped", interval |-> 0, must_cancel |-> FALSE]
    /\ UNCHANGED <<cache, now, last, pc, rcall, wcall, lifespan, loop_vars, db_vars, svc_vars>>

\* lifespan, `await cache_task` raises CancelledError, `except
\* asyncio.CancelledError: pass`: shutdown completes.
LifespanExit ==
    /\ lifespan = "awaiting"
    /\ sweeper.at = "stopped"
    /\ lifespan' = "done"
    /\ UNCHANGED <<cache, now, last, pc, rcall, wcall, sweeper, loop_vars, db_vars, svc_vars>>

\* -------------------------------------------------------- specifications
\* The application: requests run cached reads and decorated writes, the
\* sweeper runs, the clock advances.  Only the wrapper writes the store.
Next ==
    \/ Tick
    \/ Sweep
    \/ \E r \in Readers, c \in Calls : ReadCall(r, c)
    \/ \E r \in Readers, v \in Values : ReadFuncReturn(r, v)
    \/ \E r \in Readers, e \in Exceptions : ReadFuncRaise(r, e)
    \/ \E w \in Writers, ps \in ServicePatterns : WriteCall(w, ps)
    \/ \E w \in Writers : WriteFuncReturn(w)
    \/ \E w \in Writers, e \in Exceptions : WriteFuncRaise(w, e)

Spec == Init /\ [][Next]_vars

\* The store under any caller: every operation of InMemoryCache, any key of
\* StoreKeys, any value, any ttl.
NextStore ==
    \/ Tick
    \/ \E key \in StoreKeys : ApiGet(key)
    \/ \E key \in StoreKeys, value \in Values, ttl \in TTLs :
          ApiSet(key, value, ttl)
    \/ \E key \in StoreKeys : ApiDelete(key)
    \/ ApiClear
    \/ Sweep
    \/ ApiGetStats

SpecStore == Init /\ [][NextStore]_vars

\* Invalidation over any content of the store: entries under every key of
\* Keys, decorated writes with every pattern tuple, CacheManager's call.
NextInval ==
    \/ \E key \in Keys, value \in {None, Obj("a")} :
          ApiSet(key, value, default_ttl)
    \/ \E w \in Writers, ps \in PatternTuples : WriteCall(w, ps)
    \/ \E w \in Writers : WriteFuncReturn(w)
    \/ \E w \in Writers, e \in Exceptions : WriteFuncRaise(w, e)
    \/ \E rt \in ResourceTypes, rid \in ResourceIds : InvalidateResource(rt, rid)

SpecInval == Init /\ [][NextInval]_vars

\* The key builder on its own: two tasks are each about to make one call of
\* KeyCalls, and each builds the key of its call.
InitKeys ==
    /\ cache = <<>>
    /\ now = 0
    /\ last = NoEvent
    /\ pc = [t \in Tasks |-> "idle"]
    /\ rcall \in [Readers -> KeyCalls]
    /\ wcall = [w \in Writers |-> NoWrite]
    /\ sweeper = NoSweeper
    /\ lifespan = "starting"
    /\ lock = "free"
    /\ running = "none"
    /\ inside = [t \in Tasks |-> NoOp]
    /\ db = [enrollment |-> {}, next_id |-> 1]
    /\ req = [t \in Tasks |-> NoRequest]
    /\ user_db = [version |-> 0, invalidated |-> 0]
    /\ ureq = [t \in Tasks |-> NoUserCall]
    /\ event_db = [enrollment |-> {}, next_id |-> 1]
    /\ ereq = [t \in Tasks |-> NoEventCall]

NextKeys == \E r \in Readers : BuildKey(r)

SpecKeys == InitKeys /\ [][NextKeys]_vars

\* The enrollment routes: every request is a task with a session of its
\* own, and the requests interleave at their awaits.
NextEnroll ==
    \/ \E t \in Tasks, u \in UserIds, c \in CourseIds : EnrollSelect(t, u, c)
    \/ \E t \in Tasks : EnrollCommit(t)
    \/ \E t \in Tasks, u \in UserIds, c \in CourseIds : CancelSelect(t, u, c)
    \/ \E t \in Tasks : CancelCommit(t)

SpecEnroll == Init /\ [][NextEnroll]_vars

\* The store under the event loop: every task may call every operation, and
\* the steps of the calls interleave wherever the event loop allows it.
NextLock ==
    \/ Tick
    \/ \E t \in Tasks, op \in StoreOps, key \in StoreKeys : Enter(t, op, key)
    \/ \E t \in Tasks : Body(t)
    \/ \E t \in Tasks : Exit(t)

SpecLock == Init /\ [][NextLock]_vars

\* The store under every caller there is: the operations of InMemoryCache
\* called directly, decorated writes, CacheManager's invalidation, the sweep.
NextFrame ==
    \/ Tick
    \/ \E key \in StoreKeys : ApiGet(key)
    \/ \E key \in StoreKeys, ttl \in TTLs : ApiSet(key, Obj("a"), ttl)
    \/ \E key \in StoreKeys : ApiDelete(key)
    \/ ApiClear
    \/ Sweep
    \/ \E w \in Writers, ps \in PatternTuples : WriteCall(w, ps)
    \/ \E w \in Writers : WriteFuncReturn(w)
    \/ \E w \in Writers, e \in Exceptions : WriteFuncRaise(w, e)
    \/ \E rt \in ResourceTypes, rid \in ResourceIds : InvalidateResource(rt, rid)

SpecFrame == Init /\ [][NextFrame]_vars

\* Invalidation with patterns that are not well formed, over any content of
\* the store.
NextMalformed ==
    \/ \E key \in Keys : ApiSet(key, Obj("a"), default_ttl)
    \/ \E w \in Writers, ps \in MalformedTuples : WriteCall(w, ps)
    \/ \E w \in Writers : WriteFuncReturn(w)
    \/ \E w \in Writers, e \in Exceptions : WriteFuncRaise(w, e)

SpecMalformed == Init /\ [][NextMalformed]_vars

\* UserService: requests read user 1 through the cached read and update the
\* user's profile, each on a service object of its own, while the clock
\* advances.
NextUser ==
    \/ Tick
    \/ \E t \in Tasks, self \in UserServices : GetByIdCall(t, self)
    \/ \E t \in Tasks : GetByIdQuery(t)
    \/ \E t \in Tasks : GetByIdStore(t)
    \/ \E t \in Tasks, self \in UserServices : UpdateProfileCall(t, self)
    \/ \E t \in Tasks : UpdateProfileRaise(t, Exc("ValidationException"))
    \/ \E t \in Tasks : UpdateProfileCommit(t)
    \/ \E t \in Tasks : UpdateProfileRead(t)

SpecUser == Init /\ [][NextUser]_vars

\* The store under the event loop with cancellation.  The event loop keeps
\* running the task it runs: a body that has been entered is executed, an
\* operation that has ended returns.
NextLockFair ==
    \/ \E t \in Tasks, op \in StoreOps, key \in StoreKeys : Enter(t, op, key)
    \/ \E t \in Tasks : Body(t)
    \/ \E t \in Tasks : Exit(t)
    \/ \E t \in Tasks : Cancel(t)

SpecLockFair ==
    /\ Init
    /\ [][NextLockFair]_vars
    /\ \A t \in Tasks : WF_vars(Body(t)) /\ WF_vars(Exit(t))

\* The event enrollment route: every request is a task with a session of
\* its own, and the requests interleave at their awaits.
NextEvent ==
    \/ \E t \in Tasks, u \in UserIds, e \in EventIds : EventEnrollGet(t, u, e)
    \/ \E t \in Tasks : EventEnrollExisting(t)
    \/ \E t \in Tasks : EventEnrollCount(t)
    \/ \E t \in Tasks : EventEnrollCommit(t)

SpecEvent == Init /\ [][NextEvent]_vars

\* The bookmark listing: requests of two users call get_user_bookmarks,
\* each on a service object of its own, while the clock advances.
NextBookmarks ==
    \/ Tick
    \/ \E r \in Readers, c \in BookmarkCalls : BookmarksCall(r, c)
    \/ \E r \in Readers : BookmarksReturn(r)
    \/ \E r \in Readers, e \in Exceptions : ReadFuncRaise(r, e)

SpecBookmarks == Init /\ [][NextBookmarks]_vars

\* The sweeper from startup to shutdown, over a store that callers fill
\* while the clock advances.  The event loop runs every task that is ready:
\* the startup, a completed sleep, a turn of the loop, a cancellation and
\* the end of the shutdown are not postponed for ever.
SweeperTurn ==
    \/ SweeperSweep
    \/ \E e \in Exceptions : SweeperSweepRaises(e)

NextSweeper ==
    \/ Tick
    \/ \E key \in StoreKeys : ApiSet(key, Obj("a"), short_ttl)
    \/ Startup
    \/ SweeperSweep
    \/ \E e \in Exceptions : SweeperSweepRaises(e)
    \/ SleepDone
    \/ Shutdown
    \/ SweeperCancelled
    \/ LifespanExit

SpecSweeper ==
    /\ Init
    /\ [][NextSweeper]_vars
    /\ WF_vars(Startup)
    /\ WF_vars(SweeperTurn)
    /\ WF_vars(SleepDone)
    /\ WF_vars(SweeperCancelled)
    /\ WF_vars(LifespanExit)

\* ================================================================== claims
\* ------------------------------------ the store (C1, C8..C13): SpecStore
\* The key of each call the requests make.
CallKey == [c \in Calls |-> cache_key(c)]

\* A step in which the store's get runs on key k.
GetStep(k) ==
    \/ ApiGet(k)
    \/ \E r \in Readers, c \in Calls : CallKey[c] = k /\ ReadCall(r, c)

\* C1: a get(k) that follows set(k, v, t) with t > 0, nothing in between and
\* before t has elapsed, returns v, None included.
C1_GetAfterSet ==
    [][ ( /\ last.op = "set"
          /\ last'.op = "get"
          /\ last'.key = last.key
          /\ last.ttl > 0
          /\ now' < last.at + last.ttl )
        => last'.result = last.value ]_vars

\* C1, reached: a get has returned the None that was stored under its key in
\* this very minute with a ttl still running.
C1_Witness ==
    /\ last.op = "get"
    /\ last.result = None
    /\ last.key \in DOMAIN cache
    /\ cache[last.key].value = None
    /\ cache[last.key].created_at = now
    /\ cache[last.key].expires_at > now

\* C8: a get(k) on an entry whose ttl has elapsed (now >= expires_at) returns
\* None and removes the entry, so get_stats right after it counts one entry
\* less and k is not among the counted.
C8_ExpiredGet ==
    [][ \A k \in Keys :
          ( /\ k \in DOMAIN cache
            /\ cache[k].expires_at <= now
            /\ GetStep(k) )
          => ( /\ last'.result = None
               /\ k \notin DOMAIN cache'
               /\ get_stats(cache', now').total_entries
                     = Cardinality(DOMAIN cache) - 1
               /\ get_stats(cache', now').total_entries
                     = Cardinality((DOMAIN cache) \ {k}) ) ]_vars

\* C8, reached: a get has just removed the expired entry of its key.
C8_Witness ==
    /\ last.op = "get"
    /\ last.result = None
    /\ last.key \in last.removed
    /\ last.key \notin DOMAIN cache
    /\ cache # <<>>

\* C9: the sweep removes exactly the entries with expires_at <= now and leaves
\* every other entry as it was (value, created_at, expires_at).
C9_SweepExact ==
    [][ Sweep =>
          ( /\ DOMAIN cache' = {k \in DOMAIN cache : cache[k].expires_at > now}
            /\ \A k \in DOMAIN cache' : cache'[k] = cache[k] ) ]_vars

\* C9, reached: a sweep has removed an entry and left another one.
C9_Witness ==
    /\ last.op = "cleanup_expired"
    /\ last.removed # {}
    /\ cache # <<>>

\* C10 as stated: the sweep returns the number of entries it removed.
C10_ReturnsCount ==
    last.op = "cleanup_expired"
        => last.result = PyInt(Cardinality(last.removed))

\* C10 amended: the sweep returns None; the count it logs, 0 standing for no
\* log line, is the decrease of the store's entry count.
C10_LogsCount ==
    [][ Sweep =>
          ( /\ last'.result = None
            /\ last'.logged
                  = Cardinality(DOMAIN cache) - Cardinality(DOMAIN cache') ) ]_vars

\* C10, reached: a sweep that removed entries has returned None.
C10_Witness ==
    /\ last.op = "cleanup_expired"
    /\ last.logged > 0
    /\ last.result = None

\* C11: delete(k) raises nothing; after it k is absent and get(k) returns
\* None; an absent k leaves the store as it was; no entry other than k
\* changes; a second delete(k) changes nothing more.
C11_DeleteTotal ==
    [][ \A k \in StoreKeys :
          ApiDelete(k) =>
            ( /\ last'.op = "delete"
              /\ last'.result = None
              /\ k \notin DOMAIN cache'
              /\ get(cache', now', k).result = None
              /\ DOMAIN cache' = (DOMAIN cache) \ {k}
              /\ \A j \in DOMAIN cache' : cache'[j] = cache[j]
              /\ (k \notin DOMAIN cache => cache' = cache)
              /\ delete(cache', k) = cache' ) ]_vars

\* C11, reached: a delete of an absent key has returned and the other entry
\* is still stored.
C11_Witness ==
    /\ last.op = "delete"
    /\ last.removed = {}
    /\ last.key \notin DOMAIN cache
    /\ cache # <<>>

\* C12: after clear, whatever came before, the store is empty: get_stats
\* counts 0 entries and get returns None for every key.
C12_ClearEmpties ==
    [][ ApiClear =>
          ( /\ get_stats(cache', now').total_entries = 0
            /\ Cardinality(DOMAIN cache') = 0
            /\ \A k \in Keys : get(cache', now', k).result = None ) ]_vars

\* C12, reached: a clear has removed both stored entries.
C12_Witness ==
    /\ last.op = "clear"
    /\ Cardinality(last.removed) = 2
    /\ cache = <<>>

\* C13: get_stats changes no entry, expired ones included, and returns the
\* number of stored entries, the number of those with expires_at <= now, and
\* their difference.
C13_StatsPure ==
    [][ ApiGetStats =>
          LET total == Cardinality(DOMAIN cache)
              expired == Cardinality({k \in DOMAIN cache :
                                        ~ (cache[k].expires_at > now)})
          IN  /\ cache' = cache
              /\ last'.stats.total_entries = total
              /\ last'.stats.expired_entries = expired
              /\ last'.stats.active_entries = total - expired
              /\ 0 <= expired /\ expired <= total ]_vars

\* C13, reached: get_stats has counted one expired and one active entry,
\* and both are still stored.
C13_Witness ==
    /\ last.op = "get_stats"
    /\ last.stats.expired_entries = 1
    /\ last.stats.active_entries = 1
    /\ Cardinality(DOMAIN cache) = 2
    /\ \E k \in DOMAIN cache : cache[k].expires_at = now

\* ------------------------------- the cached reads (C2, C3, C4, C14): Spec
\* C2 as stated: a second call with the same arguments, made right after the
\* first call has stored its result and within the ttl, does not invoke the
\* wrapped function, whatever the stored result; after the ttl it does.
C2_SecondCallServed ==
    [][ ( /\ last.op = "set"
          /\ last.by \in Readers
          /\ last'.op = "get"
          /\ last'.by \in Readers
          /\ last'.key = last.key )
        => IF now' < last.at + last.ttl
           THEN pc'[last'.by] = "idle" /\ last'.result = last.value
           ELSE pc'[last'.by] = "awaiting" ]_vars

\* C3 as stated: when the wrapped function raises in a call that no other
\* call has crossed since its lookup, the exception reaches the caller, the
\* store is as it was and holds no entry under the call's key, and the next
\* lookup of that key misses.
C3_FailureLeavesNoEntry ==
    [][ \A r \in Readers, e \in Exceptions :
          ( /\ ReadFuncRaise(r, e)
            /\ last.op = "get"
            /\ last.by = r )
          => ( /\ last'.op = "raise"
               /\ last'.result = e
               /\ cache' = cache
               /\ get(cache', now', cache_key(rcall[r])).result = None
               /\ cache_key(rcall[r]) \notin DOMAIN cache' ) ]_vars

\* The keys a read decorated with cached(key_prefix = prefix) stores under.
WrapperKeys(prefix) ==
    {cache_key(c) : c \in {d \in Calls : d.func.key_prefix = prefix}}

\* C4 as stated: when a write decorated with cache_invalidate(prefix + ":*")
\* returns, no key that a read decorated with cached(key_prefix = prefix) had
\* stored before the write was called is left in the store.
C4_WritePurgesReads ==
    [][ \A w \in Writers, prefix \in {s_user, s_announcement} :
          ( /\ WriteFuncReturn(w)
            /\ \E i \in 1..Len(wcall[w].key_patterns) :
                  wcall[w].key_patterns[i] = prefix \o Colon \o Star )
          => \A k \in WrapperKeys(prefix) \cap wcall[w].before :
                k \notin DOMAIN cache' ]_vars

\* C14: every call that misses invokes the wrapped function, also when
\* another task is already awaiting the same call; each caller returns the
\* result of its own invocation, and the store holds the result of the set
\* that ran last.
C14_MissesNotDeduplicated ==
    [][ \A r \in Readers :
          /\ \A c \in Calls :
                ( /\ last'.op = "get" /\ last'.by = r /\ last'.result = None
                  /\ pc[r] = "idle" /\ now' = now
                  /\ ReadCall(r, c) )
                  => (pc'[r] = "awaiting" /\ rcall'[r] = c)
          /\ \A v \in Values :
                ( /\ last'.op = "set" /\ last'.by = r /\ last'.value = v
                  /\ pc[r] = "awaiting" /\ now' = now
                  /\ ReadFuncReturn(r, v) )
                  => ( /\ last'.result = v
                       /\ cache'[cache_key(rcall[r])].value = v
                       /\ \A q \in Readers \ {r} :
                             pc'[q] = pc[q] /\ rcall'[q] = rcall[q] ) ]_vars

\* C14, reached: two tasks missed on the same call; r2's invocation has
\* returned and its result is stored while r1's invocation is still running.
C14_Witness ==
    /\ last.op = "set"
    /\ last.by = "r2"
    /\ pc["r1"] = "awaiting"
    /\ cache_key(rcall["r1"]) = last.key
    /\ cache[last.key].value = last.value
    /\ last.value = Obj("b")

\* ------------------------------- invalidation (C5, C6, C7): SpecInval
\* What a pattern matches: with a trailing "*", the keys whose leading
\* substring is the rest of the pattern; without, the key equal to it.
PatternMatches(p, k) ==
    IF p # <<>> /\ p[Len(p)] = "*"
    THEN \E n \in 0..Len(k) : SubSeq(k, 1, n) = SubSeq(p, 1, Len(p) - 1)
    ELSE k = p

\* C5: the invalidation of a decorated write removes exactly the keys that one
\* of its patterns matches and leaves every other entry as it was; "user:*"
\* does not match "superuser:1".
C5_PatternExact ==
    [][ \A w \in Writers :
          WriteFuncReturn(w) =>
            LET ps == wcall[w].key_patterns
                matched == {k \in DOMAIN cache :
                              \E i \in 1..Len(ps) : PatternMatches(ps[i], k)}
            IN  /\ DOMAIN cache' = (DOMAIN cache) \ matched
                /\ \A k \in DOMAIN cache' : cache'[k] = cache[k]
                /\ (ps = <<user_star>> /\ superuser_1 \in DOMAIN cache)
                      => superuser_1 \in DOMAIN cache' ]_vars

\* C5, reached: "user:*" has removed "user:1" and left "superuser:1".
C5_Witness ==
    /\ last.op = "invalidate"
    /\ last.patterns = <<user_star>>
    /\ user_1 \in last.removed
    /\ superuser_1 \in DOMAIN cache

\* s has sub as a substring.
HasSubstring(s, sub) ==
    \E i \in 1..(Len(s) + 1), j \in 0..Len(s) : SubSeq(s, i, j) = sub

\* C6 as stated: invalidate_resource_cache removes exactly the keys that
\* contain resource_type and, when an id is given (0 included), str(id), and
\* leaves the other entries as they were.
C6_ResourceExact ==
    [][ \A rt \in ResourceTypes, rid \in ResourceIds :
          InvalidateResource(rt, rid) =>
            LET matched == {k \in DOMAIN cache :
                              /\ HasSubstring(k, rt)
                              /\ (rid # None => HasSubstring(k, str(rid[2])))}
            IN  /\ DOMAIN cache' = (DOMAIN cache) \ matched
                /\ \A k \in DOMAIN cache' : cache'[k] = cache[k] ]_vars

\* C7: a decorated write deletes from the store only when the wrapped write
\* has returned; when it raises, the exception reaches the caller and the
\* store is as it was.
C7_NoInvalidationOnFailure ==
    [][ \A w \in Writers :
          /\ \A e \in Exceptions :
                WriteFuncRaise(w, e) =>
                  ( /\ cache' = cache
                    /\ last'.op = "raise"
                    /\ last'.by = w
                    /\ last'.result = e )
          /\ (pc'[w] # pc[w] /\ cache' # cache) =>
                ( /\ pc[w] = "awaiting"
                  /\ last'.op = "invalidate"
                  /\ last'.by = w ) ]_vars

\* C7, reached: a write decorated with "user:*" has raised and "user:1",
\* stored before it was called, is still there.
C7_Witness ==
    /\ last.op = "raise"
    /\ last.by \in Writers
    /\ last.patterns = <<user_star>>
    /\ user_1 \in DOMAIN cache

\* ------------------------------- mutual exclusion (C15): SpecLock
\* Task t is inside the store: it has entered an operation and not left it.
InStore(t) == inside[t].step \in {"body", "deleting", "exit"}

\* C15: no two tasks are inside the store at once, whichever operations they
\* call, get_stats included; a task that holds the lock is inside; while a
\* task is inside, part-way through cleanup_expired included, no other task
\* runs.
C15_MutualExclusion ==
    /\ \A t \in Tasks, u \in Tasks : (InStore(t) /\ InStore(u)) => t = u
    /\ \A t \in Tasks : (lock = t) => InStore(t)
    /\ \A t \in Tasks :
          (inside[t].step \in {"body", "deleting"}) => running = t

\* C15, reached: a task holds the lock part-way through cleanup_expired: it
\* has built expired_keys and not yet deleted them.
C15_Witness ==
    \E t \in Tasks :
       /\ inside[t].op = "cleanup_expired"
       /\ inside[t].step = "deleting"
       /\ inside[t].expired_keys # {}
       /\ lock = t
       /\ \A u \in Tasks \ {t} : ~ InStore(u)

\* ------------------------------- the key builder (C18): SpecKeys
\* kwargs as the mapping it is, whatever the order it was supplied in.
KwMap(kwargs) == {kwargs[i] : i \in 1..Len(kwargs)}

\* Two calls are the same logical call: the same wrapped operation, the same
\* positional arguments after self, the same named arguments.
SameLogicalCall(c, d) ==
    /\ c.func = d.func
    /\ Tail(c.args) = Tail(d.args)
    /\ KwMap(c.kwargs) = KwMap(d.kwargs)

\* C18 as stated: the keys two tasks build one after the other are equal
\* exactly when their calls are the same logical call.
C18_KeyDeterminism ==
    [][ ( /\ last.op = "cache_key"
          /\ last'.op = "cache_key"
          /\ last'.by # last.by )
        => ( (last'.key = last.key)
               <=> SameLogicalCall(rcall[last.by], rcall[last'.by]) ) ]_vars

\* ------------------------------- enrollment (C19): SpecEnroll
\* C19 as stated: an enroll by a user who is enrolled in the course returns
\* the id of that enrollment and adds no row; a cancel that follows a
\* cancel of the same user and course fails with not-found and changes
\* nothing.
C19_EnrollIdempotent ==
    [][ /\ \A t \in Tasks :
              ( /\ EnrollCommit(t)
                /\ req[t].existing # 0
                /\ req[t].existing
                      \in Matching(db.enrollment, req[t].user_id, req[t].course_id) )
              => ( /\ last'.result = PyInt(req[t].existing)
                   /\ {e.id : e \in db'.enrollment} = {e.id : e \in db.enrollment}
                   /\ \A e \in db'.enrollment :
                         e.id = req[t].existing => e.status = "enrolled" )
        /\ \A t \in Tasks, u \in UserIds, c \in CourseIds :
              ( /\ last.op = "cancel"
                /\ last.result = Obj("ok")
                /\ last.value = About(u, c)
                /\ CancelSelect(t, u, c) )
              => ( /\ last'.op = "cancel"
                   /\ last'.by = t
                   /\ last'.result = Exc("404 Enrollment not found")
                   /\ db' = db
                   /\ req' = req ) ]_vars

\* ------------------------------- the sweeper (C16, C17, C20): SpecSweeper
\* A step in which the sweeper begins a sleep: the end of a turn of its loop.
SweepAttempted == sweeper.at \in {"created", "woken"} /\ sweeper'.at = "sleeping"

\* C16: once the shutdown has cancelled the task, the next thing the task
\* does is stop; it never sweeps again and never leaves the stopped state;
\* and the shutdown, which awaits the task, completes.
C16_CancelStops ==
    /\ [][ /\ (sweeper.must_cancel /\ sweeper' # sweeper)
              => (sweeper'.at = "stopped" /\ cache' = cache)
           /\ (lifespan \in {"awaiting", "done"}) => ~ SweepAttempted
           /\ (sweeper.at = "stopped") => (sweeper'.at = "stopped") ]_vars
    /\ (lifespan = "awaiting") ~> (lifespan = "done" /\ sweeper.at = "stopped")

\* C16, reached: the sweeper had swept and was cancelled; it has stopped and
\* the shutdown has completed.
C16_Witness ==
    /\ lifespan = "done"
    /\ sweeper.at = "stopped"
    /\ last.op = "cleanup_expired"
    /\ last.by = "sweeper"

\* C17: a sweep that raises does not end the task: the error is logged, the
\* task sleeps 60 s, less than the 300 s after a sweep that returned, and
\* when that sleep completes it is ready for another turn; unless the
\* shutdown cancels it, the task attempts sweeps again and again.
C17_SweepFailureNotFatal ==
    /\ [][ /\ \A e \in Exceptions :
                SweeperSweepRaises(e)
                  => ( /\ sweeper'.at = "sleeping"
                       /\ sweeper'.interval = sleep_after_error
                       /\ sweeper'.interval < sleep_after_sweep
                       /\ last'.op = "raise" /\ last'.result = e )
           /\ ( /\ sweeper.at = "sleeping"
                /\ sweeper.interval = sleep_after_error
                /\ sweeper'.at # "sleeping"
                /\ ~ sweeper.must_cancel )
              => (sweeper'.at = "woken" /\ (ENABLED SweeperTurn)') ]_vars
    /\ ([]<><<SweeperTurn>>_vars \/ <>(lifespan = "awaiting"))

\* C17, reached: a sweep has raised, the 60 s sleep has completed and the
\* task, not cancelled, is about to sweep again.
C17_Witness ==
    /\ last.op = "raise"
    /\ last.by = "sweeper"
    /\ sweeper.at = "woken"
    /\ sweeper.interval = sleep_after_error
    /\ lifespan = "serving"

\* C20 as stated: every sweep, the first one included, is immediately
\* preceded by a completed sleep.
C20_SleepBeforeEverySweep ==
    [][ SweepAttempted => sweeper.at = "woken" ]_vars

\* C20 amended: the task sweeps as soon as it first runs, without a sleep;
\* every turn of the loop ends in a sleep (300 s, or 60 s after an error);
\* the task is ready again only when a sleep has completed, so every later
\* sweep follows a completed sleep and two sweeps have a sleep between them.
C20_SweepThenSleep ==
    [][ /\ SweeperTurn
              => ( /\ sweeper.at \in {"created", "woken"}
                   /\ sweeper'.at = "sleeping"
                   /\ sweeper'.interval \in {sleep_after_sweep, sleep_after_error} )
        /\ (sweeper'.at = "woken" /\ sweeper.at # "woken")
              => sweeper.at = "sleeping"
        /\ (sweeper'.at = "created" /\ sweeper.at # "created")
              => (sweeper.at = "none" /\ lifespan = "starting")
        /\ (last'.by = "sweeper" /\ last' # last) => SweepAttempted ]_vars

\* C20, reached: the task has swept without a sleep before, in the very
\* minute the application started, and is in its 300 s sleep.
C20_Witness ==
    /\ last.op = "cleanup_expired"
    /\ last.by = "sweeper"
    /\ sweeper.at = "sleeping"
    /\ sweeper.interval = sleep_after_sweep
    /\ now = 0

\* ------------------------------- entries (C21, C22, C28): SpecStore
\* C21 as stated: every stored entry has expires_at > created_at, whatever
\* ttl the caller of set supplied.
C21_ExpiresAfterCreated ==
    \A k \in DOMAIN cache : cache[k].expires_at > cache[k].created_at

\* ------------------------------- the frame (C22): SpecFrame
\* Why the entry under k may leave the store in a step, as told by the call
\* that made the step: a delete of k, an invalidation with a pattern that
\* matches k, CacheManager's invalidation with a resource type (and id) that
\* occur in k, clear, the sweep or a get of k once the entry has expired.
MayLeave(k) ==
    \/ last'.op = "delete" /\ last'.key = k
    \/ /\ last'.op = "invalidate"
       /\ \E i \in 1..Len(last'.patterns) : PatternMatches(last'.patterns[i], k)
    \/ /\ last'.op = "invalidate_resource_cache"
       /\ HasSubstring(k, last'.key)
       /\ truthy(last'.value) => HasSubstring(k, str(last'.value[2]))
    \/ last'.op = "clear"
    \/ last'.op = "cleanup_expired" /\ cache[k].expires_at <= now
    \/ last'.op = "get" /\ last'.key = k /\ cache[k].expires_at <= now

\* C22: an entry leaves the store only by one of the ways of MayLeave, and
\* changes only by a set of its own key; so set(k) and get(k) leave every
\* entry under another key as it was, and neither get nor the sweep removes
\* an entry that has not expired.
C22_Frame ==
    [][ /\ \A k \in (DOMAIN cache) \ DOMAIN cache' : MayLeave(k)
        /\ \A k \in (DOMAIN cache) \cap DOMAIN cache' :
              cache'[k] # cache[k] => (last'.op = "set" /\ last'.key = k)
        /\ last'.op \in {"get", "set"} =>
              \A k \in (DOMAIN cache) \ {last'.key} :
                 k \in DOMAIN cache' /\ cache'[k] = cache[k]
        /\ last'.op \in {"get", "cleanup_expired"} =>
              \A k \in DOMAIN cache :
                 cache[k].expires_at > now => k \in DOMAIN cache' ]_vars

\* C22, reached: a get of an expired key has removed its entry and left the
\* expired entry under the other key in the store.
C22_Witness ==
    /\ last.op = "get"
    /\ last.removed = {last.key}
    /\ \E k \in DOMAIN cache : cache[k].expires_at <= now

\* ------------------------------- the form of the keys (C23): Spec
\* C23 as stated: the key a read wrapped with key_prefix = P has stored under
\* is P, ":" and the fingerprint of the arguments, so it starts with P ":".
C23_KeyIsPrefixColonFingerprint ==
    \A c \in Calls :
       CallKey[c] \in DOMAIN cache =>
          /\ CallKey[c] = c.func.key_prefix \o Colon
                             \o generate_cache_key(c.args, c.kwargs)
          /\ startswith(CallKey[c], c.func.key_prefix \o Colon)

\* ------------------------------- malformed patterns (C24): SpecMalformed
\* A pattern is malformed: it is empty, or it has a "*" before its last
\* character.
Malformed(p) == p = <<>> \/ \E i \in 1..(Len(p) - 1) : p[i] = "*"

\* C24 as stated: the invalidation of a write declared with a malformed
\* pattern ends in an error, not in a normal return with nothing removed.
C24_MalformedPatternFails ==
    [][ \A w \in Writers :
          ( /\ WriteFuncReturn(w)
            /\ \E i \in 1..Len(wcall[w].key_patterns) :
                  Malformed(wcall[w].key_patterns[i]) )
          => ( /\ last'.result[1] = "exc"
               /\ ~ (last'.result = Obj("written") /\ last'.removed = {}) ) ]_vars

InCall(t) == inside[t].step \in {"waiting", "body", "deleting", "exit"}

\* C27: the lock is held only by a task that is inside the store, so a task
\* that has returned or has been cancelled does not hold it; a task that
\* begins a call does not hold the lock already; every call in progress
\* ends, and the lock, when taken, becomes free again.
C27_LockNeverLeaked ==
    /\ [][ /\ \A t \in Tasks :
                (lock' = t) => inside'[t].step \in {"body", "deleting", "exit"}
           /\ \A t \in Tasks :
                (inside[t].step = "out" /\ InCall(t)') => lock # t
           /\ \A t \in Tasks :
                (inside[t].step = "cancelled") => (inside'[t] = inside[t]) ]_vars
    /\ \A t \in Tasks : InCall(t) ~> ~ InCall(t)
    /\ (lock # "free") ~> (lock = "free")

\* C27, reached: after one task has been cancelled, another has gone through
\* a set and returned, and the lock is free.
C27_Witness ==
    /\ \E t \in Tasks : inside[t].step = "cancelled"
    /\ last.op = "set"
    /\ inside[last.by].step = "out"
    /\ lock = "free"

\* ------------------------------- hits (C28): Spec
\* C28: a get that returns a value leaves the store as it was, the entry it
\* read included; the value a wrapped call returns from the cache is the one
\* of an entry that was stored less than the call's ttl ago; and an entry's
\* expires_at changes only by a set of its key.
C28_HitDoesNotExtend ==
    [][ /\ \A r \in Readers, c \in Calls :
              ( /\ last'.op = "get" /\ last'.by = r /\ last'.result # None
                /\ pc[r] = "idle" /\ now' = now
                /\ ReadCall(r, c) )
              => ( /\ cache' = cache
                   /\ last'.result = cache[CallKey[c]].value
                   /\ cache[CallKey[c]].created_at <= now
                   /\ now < cache[CallKey[c]].created_at + c.func.ttl_seconds
                   /\ cache[CallKey[c]].expires_at
                         = cache[CallKey[c]].created_at + c.func.ttl_seconds )
        /\ \A k \in (DOMAIN cache) \cap DOMAIN cache' :
              cache'[k].expires_at # cache[k].expires_at
                 => (last'.op = "set" /\ last'.key = k /\ last'.at = now) ]_vars

\* C28, reached: a wrapped call has been served from an entry stored a
\* minute before, and the entry still expires when it did.
C28_Witness ==
    /\ last.op = "get"
    /\ last.by \in Readers
    /\ last.result # None
    /\ cache[last.key].created_at < now
    /\ cache[last.key].expires_at = cache[last.key].created_at + default_ttl

\* ------------------------------- capacity (C29): SpecEvent
\* C29 as stated: the event never has more enrollment rows than its
\* capacity, and an enroll that counts capacity or more rows is rejected and
\* adds no row.
C29_CapacityRespected ==
    /\ [](\A e \in Events :
            _get_enrollment_count(event_db.enrollment, e) <= capacity[e])
    /\ [][ \A t \in Tasks :
             ( /\ EventEnrollCount(t)
               /\ _get_enrollment_count(event_db.enrollment, ereq[t].event_id)
                     >= capacity[ereq[t].event_id] )
             => ( /\ last'.result = Exc("400 full")
                  /\ event_db' = event_db ) ]_vars

\* ------------------------------- isolation between users (C30): SpecBookmarks
\* C30 as stated: a call of get_user_bookmarks is never served a result
\* that was cached for another user, its key being the key of no call made
\* for another user.
C30_CrossUserIsolation ==
    [][ \A r \in Readers, c \in BookmarkCalls :
          ( /\ last'.op = "get" /\ last'.by = r /\ last'.result # None
            /\ BookmarksCall(r, c) )
          => ( /\ last'.result[2] = current_user(c.args[1])
               /\ \A d \in BookmarkCalls :
                     current_user(d.args[1]) # current_user(c.args[1])
                        => cache_key(d) # last'.key ) ]_vars

====
